---- MODULE Spec2Model ----
(***************************************************************************)
(* A model of mars.go, the MySQL backup tool: option resolution            *)
(* (NewOptions), the per-database dump loop of main with its four          *)
(* generate*Backup functions, and BackupRotation.                          *)
(*                                                                         *)
(* Strings are sequences of characters.  A character is a one-letter       *)
(* string; the multi-letter literals of the program ("--all-databases",    *)
(* "information_schema", ...) are single atoms, which is sound because no  *)
(* input of the model spells them letter by letter.  A date is a day       *)
(* number: Format("2006-01-02") is injective on days.                      *)
(***************************************************************************)
EXTENDS Integers, Sequences, FiniteSets, TLC

VARIABLES
    argv,       \* the command line of the current process (flag values)
    server,     \* the MySQL server: << [name, tables] >> in SHOW DATABASES order
    faults,     \* the failures the machine can answer a dump or archive step with
    today,      \* the wall-clock date
    daily,      \* snapshot directories (dates) under {output-dir}/daily
    weekly,     \* snapshot directories under {output-dir}/weekly
    monthly,    \* snapshot directories under {output-dir}/monthly
    files,      \* the regular files under {output-dir}: dumps and archives
    pc,         \* position of the process: start, loop, call, rotate, done, exited
    options,    \* the Options value GetOptions returned
    dbi,        \* index of the database the loop of main is at
    calls,      \* generate* calls main still has to make for that database
    counter,    \* generateTableBackup: the loop's row offset
    index,      \* generateTableBackup: the loop's batch index
    dumps,      \* history: every mysqldump invocation of this process, in order
    unclosed,   \* archives of this process whose deferred Close calls have not run
    exitCode,   \* status the process left with (0 while running or done)
    errlog,     \* history: the Error messages and panic traces the process has written
    runs,       \* history: processes started today
    rotations   \* history: BackupRotation calls completed today

vars == << argv, server, faults, today, daily, weekly, monthly, files, pc, options, dbi,
           calls, counter, index, dumps, unclosed, exitCode, errlog, runs, rotations >>

procVars ==
    << pc, options, dbi, calls, counter, index, dumps, unclosed, exitCode, errlog >>

-----------------------------------------------------------------------------
(* Bounds of the model *)

MaxRows == 4
MaxTables == 2
MaxThreshold == 1
MaxBatch == 2
MaxRetention == 1
MaxDay == 3
MaxRunsPerDay == 2
MaxFlagLen == 3
MaxServerDbs == 3
MaxBatches == 11
MaxLongTable == 10

-----------------------------------------------------------------------------
(* Program constants *)

DefaultDailyRotation == 5
DefaultWeeklyRotation == 2
DefaultMontlyRotation == 1
DefaultTableThreshold == 5000000
ExitDumpPathMissing == 1
ExitPanic == 2
ExitDumpFailed == 4

AllDatabasesFlag == << "--all-databases" >>
InformationSchema == << "information_schema" >>
PerformanceSchema == << "performance_schema" >>
SystemSchemasSuffix == << ",", "information_schema", ",", "performance_schema" >>
DefaultDumpPath == "/usr/bin/mysqldump"
OutputDirectory == "/backup"

-----------------------------------------------------------------------------
(* Strings *)

IsPrefix(p, s) == Len(p) <= Len(s) /\ SubSeq(s, 1, Len(p)) = p

\* strings.Replace(s, old, new, -1) for a non-empty old: left to right,
\* non-overlapping.
RECURSIVE Replace(_, _, _)
Replace(s, old, new) ==
    IF s = << >> THEN << >>
    ELSE IF IsPrefix(old, s)
         THEN new \o Replace(SubSeq(s, Len(old) + 1, Len(s)), old, new)
         ELSE << Head(s) >> \o Replace(Tail(s), old, new)

\* strings.Split(s, ","): the pieces between the commas; "" gives [""].
RECURSIVE Split(_)
Split(s) ==
    LET commas == { i \in 1..Len(s) : s[i] = "," } IN
    IF commas = {} THEN << s >>
    ELSE LET i == CHOOSE j \in commas : \A k \in commas : j <= k
         IN  << SubSeq(s, 1, i - 1) >> \o Split(SubSeq(s, i + 1, Len(s)))

\* The four Replace calls NewOptions applies to a flag value.
Normalize(s) ==
    LET s1 == Replace(s, << " " >>, << >>)
        s2 == Replace(s1, << " ", ",", " " >>, << "," >>)
        s3 == Replace(s2, << ",", " " >>, << "," >>)
    IN  Replace(s3, << " ", "," >>, << "," >>)

RECURSIVE removeDuplicatesFrom(_, _)
removeDuplicatesFrom(elements, encountered) ==
    IF elements = << >> THEN << >>
    ELSE IF Head(elements) \in encountered
         THEN removeDuplicatesFrom(Tail(elements), encountered)
         ELSE << Head(elements) >>
              \o removeDuplicatesFrom(Tail(elements), encountered \cup { Head(elements) })

removeDuplicatesKeepLast(elements) ==
    LET n == Len(elements)
        keep == { i \in 1..n : \A j \in (i + 1)..n : elements[j] # elements[i] }
        RECURSIVE pick(_)
        pick(i) == IF i > n THEN << >>
                   ELSE (IF i \in keep THEN << elements[i] >> ELSE << >>) \o pick(i + 1)
    IN  pick(1)

removeDuplicates(elements) == removeDuplicatesFrom(elements, {})

Range(s) == { s[i] : i \in 1..Len(s) }

differenceSwapped(a, b) == LET mb == Range(a) IN SelectSeq(b, LAMBDA x : x \notin mb)

\* difference returns the elements in a that aren't in b
difference(a, b) == LET mb == Range(b) IN SelectSeq(a, LAMBDA x : x \notin mb)

\* SHOW DATABASES
GetDatabaseList(srv) == [ i \in 1..Len(srv) |-> srv[i].name ]

NewOptionsNoSystemSchemas(a, dbslist, now) ==
    LET databases == Normalize(a.databases)
        dbs == removeDuplicates(Split(databases))
        excludeddbs == removeDuplicates(Split(Normalize(a.excludeddatabases)))
    IN  [ Databases |-> IF databases = AllDatabasesFlag
                        THEN difference(dbslist, excludeddbs) ELSE dbs,
          ExcludedDatabases |-> << >>,
          DatabaseRowCountTreshold |-> a.dbthreshold,
          TableRowCountTreshold |-> a.tablethreshold,
          BatchSize |-> a.batchsize,
          ForceSplit |-> a.forcesplit,
          MySQLDumpPath |-> a.mysqldumppath,
          ExecutionStartDate |-> now,
          DailyRotation |-> a.dailyrotation,
          WeeklyRotation |-> a.weeklyrotation,
          MontlyRotation |-> a.montlyrotation ]

NewOptionsAlwaysExcludes(a, dbslist, now) ==
    LET databases == Normalize(a.databases)
        dbs == removeDuplicates(Split(databases))
        excludeddbs == removeDuplicates(
                           Split(Normalize(a.excludeddatabases \o SystemSchemasSuffix)))
    IN  [ Databases |-> IF databases = AllDatabasesFlag
                        THEN difference(dbslist, excludeddbs)
                        ELSE difference(dbs, excludeddbs),
          ExcludedDatabases |-> << >>,
          DatabaseRowCountTreshold |-> a.dbthreshold,
          TableRowCountTreshold |-> a.tablethreshold,
          BatchSize |-> a.batchsize,
          ForceSplit |-> a.forcesplit,
          MySQLDumpPath |-> a.mysqldumppath,
          ExecutionStartDate |-> now,
          DailyRotation |-> a.dailyrotation,
          WeeklyRotation |-> a.weeklyrotation,
          MontlyRotation |-> a.montlyrotation ]

\* NewOptions: the Options of a command line, dbslist being what
\* GetDatabaseList returns when it is asked.
NewOptions(a, dbslist, now) ==
    LET databases == Normalize(a.databases)
        dbs == removeDuplicates(Split(databases))
        excludeddbs == removeDuplicates(
                           Split(Normalize(a.excludeddatabases \o SystemSchemasSuffix)))
    IN  [ Databases |-> IF databases = AllDatabasesFlag
                        THEN difference(dbslist, excludeddbs) ELSE dbs,
          ExcludedDatabases |-> << >>,
          DatabaseRowCountTreshold |-> a.dbthreshold,
          TableRowCountTreshold |-> a.tablethreshold,
          BatchSize |-> a.batchsize,
          ForceSplit |-> a.forcesplit,
          MySQLDumpPath |-> a.mysqldumppath,
          ExecutionStartDate |-> now,
          DailyRotation |-> a.dailyrotation,
          WeeklyRotation |-> a.weeklyrotation,
          MontlyRotation |-> a.montlyrotation ]

-----------------------------------------------------------------------------
(* Tables, file names, the plan of main *)

DigitChar(d) == << "0", "1", "2", "3", "4", "5", "6", "7", "8", "9" >>[d + 1]

\* fmt's %d of a non-negative int
RECURSIVE Digits(_)
Digits(n) == IF n < 10 THEN << DigitChar(n) >>
             ELSE Digits(n \div 10) \o << DigitChar(n % 10) >>

\* NewTable
NewTable(tableName, rowCount) == [ TableName |-> tableName, RowCount |-> rowCount ]

NoTable == NewTable(<< >>, 0)

\* The name of the i-th table of a database of the model: t, t1, t2, ...
TableNameAt(i) == IF i = 1 THEN << "t" >> ELSE << "t" >> \o Digits(i - 1)

\* GetTables: the inventory the server holds for a database; << >> when it
\* holds no such database (the caller only asks after the query succeeded).
GetTables(srv, database) ==
    LET hit == { i \in 1..Len(srv) : srv[i].name = database } IN
    IF hit = {} THEN << >> ELSE srv[CHOOSE i \in hit : TRUE].tables

HasDatabase(srv, database) == \E i \in 1..Len(srv) : srv[i].name = database

RECURSIVE getTotalRowCount(_)
getTotalRowCount(tables) ==
    IF tables = << >> THEN 0
    ELSE Head(tables).RowCount + getTotalRowCount(Tail(tables))

Call(fn, table) == [ fn |-> fn, table |-> table ]

TableCallsReversed(tables) ==
    [ i \in 1..Len(tables) |->
        Call("generateTableBackup", tables[Len(tables) + 1 - i]) ]

\* The range loop over the inventory in the third branch of main
TableCalls(tables) ==
    [ i \in 1..Len(tables) |-> Call("generateTableBackup", tables[i]) ]

PlanStrictThreshold(o, tables) ==
    LET totalRowCount == getTotalRowCount(tables) IN
    IF ~o.ForceSplit /\ totalRowCount < o.DatabaseRowCountTreshold
    THEN << Call("generateSingleFileBackup", NoTable) >>
    ELSE IF o.ForceSplit /\ totalRowCount < o.DatabaseRowCountTreshold
    THEN << Call("generateSchemaBackup", NoTable),
            Call("generateSingleFileDataBackup", NoTable) >>
    ELSE << Call("generateSchemaBackup", NoTable) >> \o TableCalls(tables)

PlanFallThrough(o, tables) ==
    LET totalRowCount == getTotalRowCount(tables) IN
    (IF ~o.ForceSplit /\ totalRowCount <= o.DatabaseRowCountTreshold
     THEN << Call("generateSingleFileBackup", NoTable) >> ELSE << >>)
    \o (IF totalRowCount <= o.DatabaseRowCountTreshold
        THEN << Call("generateSchemaBackup", NoTable),
                Call("generateSingleFileDataBackup", NoTable) >>
        ELSE << Call("generateSchemaBackup", NoTable) >> \o TableCalls(tables))

PlanTableThreshold(o, tables) ==
    LET totalRowCount == getTotalRowCount(tables) IN
    IF ~o.ForceSplit /\ totalRowCount <= o.DatabaseRowCountTreshold
    THEN << Call("generateSingleFileBackup", NoTable) >>
    ELSE IF o.ForceSplit /\ totalRowCount <= o.DatabaseRowCountTreshold
    THEN << Call("generateSchemaBackup", NoTable),
            Call("generateSingleFileDataBackup", NoTable) >>
    ELSE IF totalRowCount > o.DatabaseRowCountTreshold
    THEN << Call("generateSchemaBackup", NoTable) >>
         \o TableCalls(SelectSeq(tables, LAMBDA t : t.RowCount > o.TableRowCountTreshold))
    ELSE << >>

\* The body of main's loop for one database: the generate* calls it makes,
\* in order.
Plan(o, tables) ==
    LET totalRowCount == getTotalRowCount(tables) IN
    IF ~o.ForceSplit /\ totalRowCount <= o.DatabaseRowCountTreshold
    THEN << Call("generateSingleFileBackup", NoTable) >>
    ELSE IF o.ForceSplit /\ totalRowCount <= o.DatabaseRowCountTreshold
    THEN << Call("generateSchemaBackup", NoTable),
            Call("generateSingleFileDataBackup", NoTable) >>
    ELSE IF totalRowCount > o.DatabaseRowCountTreshold
    THEN << Call("generateSchemaBackup", NoTable) >> \o TableCalls(tables)
    ELSE << >>

\* The timestamp of a file name: the date with its dashes removed.
Timestamp(date) == Digits(date)

\* path.Join(OutputDirectory, "daily", t.Format(..), db-ExecutionStartDate, name)
FilePath(now, o, db, label) ==
    << OutputDirectory, "daily", now, << db, o.ExecutionStartDate >>,
       db \o << "_" >> \o label \o << "_" >> \o Timestamp(o.ExecutionStartDate)
          \o << ".sql" >> >>

\* One mysqldump invocation with the archive step that follows it.
Entry(now, o, db, kind, table, idx, off, lim, result) ==
    [ db |-> db, kind |-> kind, table |-> table.TableName, rows |-> table.RowCount,
      index |-> idx, offset |-> off, limit |-> lim,
      file |-> FilePath(now, o, db,
                        IF kind = "TABLE" THEN table.TableName \o Digits(idx)
                        ELSE << kind >>),
      result |-> result ]

\* The ways one invocation can go: all is well; mysqldump writes diagnostic
\* text; os.Create of the archive fails; Compress returns an error; file.Stat
\* fails inside Compress; mysqldump leaves with a non-zero status and no
\* diagnostic text (it was killed); cmd.Start fails.
Results ==
    { "ok", "dumperr", "createerr", "compresserr", "staterr", "exiterr", "starterr" }

\* The failures the code answers with os.Exit(4)
ReportedFaults == { "dumperr", "createerr", "compresserr" }

\* The failure of a query to the server, which checkErr answers with a panic
QueryFaults == { "queryerr" }

\* The answers open to a query: rows, or an error
QueryResults == IF "queryerr" \in faults THEN BOOLEAN ELSE { TRUE }

\* The results open to a dump into daily/{now} with the given LIMIT count,
\* on a machine that can fail in the ways of faults:
\* mysqldump cannot open its -r file in a snapshot directory that does not
\* exist (the os.Mkdir of the database directory under it has failed, its
\* error dropped), and the server rejects a negative LIMIT count; both are
\* reported as diagnostic text.
ResultsAt(dirExists, lim) ==
    IF dirExists /\ lim >= 0 THEN { "ok" } \cup (faults \cap Results) ELSE { "dumperr" }

FatalDumpOnly(result) == result = "dumperr"

\* string(err) != "" || errcreate != nil || errcompress != nil.  The errors
\* of cmd.Start and cmd.Wait are not read: a command that could not be
\* started has left no dump file, and Compress fails as it opens it.
Fatal(result) == result \in { "dumperr", "createerr", "compresserr", "starterr" }

\* filename + ".tar.gz"
ArchiveOf(path) == [ path EXCEPT ![5] = @ \o << ".tar.gz" >> ]

CompressKeepOriginal(fs, path, result) == fs

\* Compress(tw, path): the files it leaves.  path is removed once it has been
\* copied into the archive; after an error of Open, WriteHeader, Copy or
\* Remove it is still there, and so it is when file.Stat fails, where Compress
\* writes nothing and returns nil.
Compress(fs, path, result) ==
    IF result \in { "ok", "exiterr" } THEN fs \ { path } ELSE fs

\* The files one invocation leaves: mysqldump opens path as it reads -r,
\* os.Create makes the archive, Compress fills it.
Invoke(fs, path, result, dirExists) ==
    IF result = "dumperr" THEN (IF dirExists THEN fs \cup { path } ELSE fs)
    ELSE IF result = "createerr" THEN fs \cup { path }
    ELSE IF result = "starterr" THEN fs \cup { ArchiveOf(path) }
    ELSE Compress(fs \cup { path, ArchiveOf(path) }, path, result)

\* The archives with pending deferred Close calls after an invocation: file,
\* gw and tw are deferred as soon as os.Create has succeeded.
Deferred(open, path, result) ==
    IF result \in { "dumperr", "createerr" } THEN open
    ELSE open \cup { ArchiveOf(path) }

-----------------------------------------------------------------------------
(* The inputs of the model: command lines and servers *)

NameA == << "a" >>
NameB == << "b" >>
NameC == << "c" >>

MkArgs(databases, excluded, dbthreshold, batchsize, forcesplit, dumppath, d, w, m) ==
    [ databases |-> databases, excludeddatabases |-> excluded,
      dbthreshold |-> dbthreshold, tablethreshold |-> DefaultTableThreshold,
      batchsize |-> batchsize, forcesplit |-> forcesplit,
      mysqldumppath |-> dumppath,
      dailyrotation |-> d, weeklyrotation |-> w, montlyrotation |-> m ]

\* -databases and -excluded-databases values of the runs: all databases, all
\* but b, "a", "b, a,b", and "a,c" (the servers hold no database c).
FlagPairs ==
    { << AllDatabasesFlag, << >> >>, << AllDatabasesFlag, NameB >>,
      << NameA, << >> >>, << << "b", ",", " ", "a", ",", "b" >>, << >> >>,
      << << "a", ",", "c" >>, << >> >> }

SizingArgs ==
    { MkArgs(f[1], f[2], th, b, fs, DefaultDumpPath, DefaultDailyRotation,
             DefaultWeeklyRotation, DefaultMontlyRotation) :
        f \in FlagPairs, th \in (-1)..MaxThreshold, b \in 1..MaxBatch, fs \in BOOLEAN }
    \cup { MkArgs(NameA, << >>, 0, 1, FALSE, "/missing/mysqldump", DefaultDailyRotation,
                  DefaultWeeklyRotation, DefaultMontlyRotation) }

\* Command lines of the runs that are followed over days: database a in one
\* file, under every choice of the three retention counts.
RotationArgs ==
    { MkArgs(NameA, << >>, 1, 1, FALSE, DefaultDumpPath, d, w, m) :
        d \in 0..MaxRetention, w \in 0..MaxRetention, m \in 0..MaxRetention }

\* The files that exist at a -mysqldump-path
Executables == { DefaultDumpPath }

RowSeqs(n) == UNION { [ 1..k -> 0..MaxRows ] : k \in 0..n }

MkTables(rows) == [ i \in 1..Len(rows) |-> NewTable(TableNameAt(i), rows[i]) ]

MkServer(ra, rb) ==
    << [ name |-> NameA, tables |-> MkTables(ra) ],
       [ name |-> NameB, tables |-> MkTables(rb) ],
       [ name |-> InformationSchema, tables |-> << >> ] >>

RECURSIVE SumSeq(_)
SumSeq(rows) == IF rows = << >> THEN 0 ELSE Head(rows) + SumSeq(Tail(rows))

\* Servers with databases a and b (and information_schema) that hold at most
\* MaxTables tables and MaxRows rows in all.
Servers ==
    { MkServer(p[1], p[2]) :
        p \in { q \in RowSeqs(MaxTables) \X RowSeqs(MaxTables) :
                    /\ Len(q[1]) + Len(q[2]) <= MaxTables
                    /\ SumSeq(q[1]) + SumSeq(q[2]) <= MaxRows } }

SmallServer == MkServer(<< 1 >>, << >>)

NoOptions ==
    [ Databases |-> << >>, ExcludedDatabases |-> << >>, DatabaseRowCountTreshold |-> 0,
      TableRowCountTreshold |-> 0,
      BatchSize |-> 0, ForceSplit |-> FALSE, MySQLDumpPath |-> "",
      ExecutionStartDate |-> 0, DailyRotation |-> 0, WeeklyRotation |-> 0,
      MontlyRotation |-> 0 ]

-----------------------------------------------------------------------------
(* The process *)

ProcessStart ==
    /\ pc = "start" /\ options = NoOptions /\ dbi = 0 /\ calls = << >>
    /\ counter = 0 /\ index = 1 /\ dumps = << >> /\ unclosed = {} /\ exitCode = 0
    /\ errlog = << >>

Init ==
    /\ argv \in SizingArgs
    /\ server \in Servers
    /\ faults = ReportedFaults \cup QueryFaults
    /\ today = 1
    /\ daily = {} /\ weekly = {} /\ monthly = {} /\ files = {}
    /\ ProcessStart
    /\ runs = 1 /\ rotations = 0

\* What the process writes before it leaves with code: the Error message
\* printed ahead of each os.Exit, or the trace of the panic.
ErrorOutput(code) ==
    IF code = ExitPanic THEN "panic"
    ELSE IF code = ExitDumpPathMissing THEN "mysqldump binary can not be found"
    ELSE "mysqldump or archive error"

\* os.Exit(code), and a panic's exit
Exit(code) ==
    /\ pc' = "exited"
    /\ exitCode' = code
    /\ errlog' = Append(errlog, ErrorOutput(code))

GetOptionsMkdirFirst ==
    /\ pc = "start"
    /\ IF argv.mysqldumppath \notin Executables
       THEN /\ Exit(ExitDumpPathMissing)
            /\ daily' = daily \cup { today }
            /\ UNCHANGED << options, dbi >>
       ELSE /\ daily' = daily \cup { today }
            /\ \E listed \in QueryResults :
                 IF Normalize(argv.databases) = AllDatabasesFlag /\ ~listed
                 THEN /\ Exit(ExitPanic)
                      /\ UNCHANGED << options, dbi >>
                 ELSE /\ options' = NewOptions(argv, GetDatabaseList(server), today)
                      /\ pc' = "loop"
                      /\ dbi' = 1
                      /\ UNCHANGED << exitCode, errlog >>
    /\ UNCHANGED << argv, server, faults, today, weekly, monthly, files, calls, counter,
                    index, dumps, unclosed, runs, rotations >>

\* GetOptions: the dump executable is looked for, the tier directories are
\* made, NewOptions resolves the database list (asking the server for it in
\* all-databases mode, where a failed query panics).
GetOptions ==
    /\ pc = "start"
    /\ IF argv.mysqldumppath \notin Executables
       THEN /\ Exit(ExitDumpPathMissing)
            /\ UNCHANGED << daily, options, dbi >>
       ELSE /\ daily' = daily \cup { today }
            /\ \E listed \in QueryResults :
                 IF Normalize(argv.databases) = AllDatabasesFlag /\ ~listed
                 THEN /\ Exit(ExitPanic)
                      /\ UNCHANGED << options, dbi >>
                 ELSE /\ options' = NewOptions(argv, GetDatabaseList(server), today)
                      /\ pc' = "loop"
                      /\ dbi' = 1
                      /\ UNCHANGED << exitCode, errlog >>
    /\ UNCHANGED << argv, server, faults, today, weekly, monthly, files, calls, counter,
                    index, dumps, unclosed, runs, rotations >>

MainLoopSkipsFailed ==
    /\ pc = "loop"
    /\ IF dbi > Len(options.Databases)
       THEN /\ pc' = "rotate"
            /\ UNCHANGED << dbi, calls, exitCode, errlog >>
       ELSE LET db == options.Databases[dbi] IN
            \E queried \in (IF HasDatabase(server, db) THEN QueryResults ELSE { FALSE }) :
              IF ~queried
              THEN /\ dbi' = dbi + 1
                   /\ UNCHANGED << pc, calls, exitCode, errlog >>
              ELSE LET plan == Plan(options, GetTables(server, db)) IN
                   /\ calls' = plan
                   /\ pc' = IF plan = << >> THEN "loop" ELSE "call"
                   /\ dbi' = IF plan = << >> THEN dbi + 1 ELSE dbi
                   /\ UNCHANGED << exitCode, errlog >>
    /\ UNCHANGED << argv, server, faults, today, daily, weekly, monthly, files, options,
                    counter, index, dumps, unclosed, runs, rotations >>

MainLoopRotatesEarly ==
    /\ pc = "loop"
    /\ IF dbi >= Len(options.Databases)
       THEN /\ pc' = "rotate"
            /\ UNCHANGED << dbi, calls, exitCode, errlog >>
       ELSE LET db == options.Databases[dbi] IN
            \E queried \in (IF HasDatabase(server, db) THEN QueryResults ELSE { FALSE }) :
              IF ~queried
              THEN /\ Exit(ExitPanic)
                   /\ UNCHANGED << dbi, calls >>
              ELSE LET plan == Plan(options, GetTables(server, db)) IN
                   /\ calls' = plan
                   /\ pc' = IF plan = << >> THEN "loop" ELSE "call"
                   /\ dbi' = IF plan = << >> THEN dbi + 1 ELSE dbi
                   /\ UNCHANGED << exitCode, errlog >>
    /\ UNCHANGED << argv, server, faults, today, daily, weekly, monthly, files, options,
                    counter, index, dumps, unclosed, runs, rotations >>

\* The head of main's loop: the next database's tables are fetched (a failed
\* query panics) and its calls are chosen; after the last database main goes
\* on to BackupRotation.
MainLoop ==
    /\ pc = "loop"
    /\ IF dbi > Len(options.Databases)
       THEN /\ pc' = "rotate"
            /\ UNCHANGED << dbi, calls, exitCode, errlog >>
       ELSE LET db == options.Databases[dbi] IN
            \E queried \in (IF HasDatabase(server, db) THEN QueryResults ELSE { FALSE }) :
              IF ~queried
              THEN /\ Exit(ExitPanic)
                   /\ UNCHANGED << dbi, calls >>
              ELSE LET plan == Plan(options, GetTables(server, db)) IN
                   /\ calls' = plan
                   /\ pc' = IF plan = << >> THEN "loop" ELSE "call"
                   /\ dbi' = IF plan = << >> THEN dbi + 1 ELSE dbi
                   /\ UNCHANGED << exitCode, errlog >>
    /\ UNCHANGED << argv, server, faults, today, daily, weekly, monthly, files, options,
                    counter, index, dumps, unclosed, runs, rotations >>

ReturnSkipsNext ==
    /\ calls' = Tail(calls)
    /\ pc' = IF Tail(calls) = << >> THEN "loop" ELSE "call"
    /\ dbi' = IF Tail(calls) = << >> THEN dbi + 2 ELSE dbi
    /\ UNCHANGED << exitCode, errlog >>

\* A generate* function returns to main: the next call of the database, or
\* the next database.
Return ==
    /\ calls' = Tail(calls)
    /\ pc' = IF Tail(calls) = << >> THEN "loop" ELSE "call"
    /\ dbi' = IF Tail(calls) = << >> THEN dbi + 1 ELSE dbi
    /\ UNCHANGED << exitCode, errlog >>

OneDumpExitsOne(kind) ==
    /\ \E result \in ResultsAt(today \in daily, 0) :
         LET e == Entry(today, options, options.Databases[dbi], kind, NoTable, 0, 0, 0,
                        result)
         IN  /\ dumps' = Append(dumps, e)
             /\ files' = Invoke(files, e.file, result, today \in daily)
             /\ IF Fatal(result)
                THEN /\ Exit(ExitDumpPathMissing)
                     /\ unclosed' = Deferred(unclosed, e.file, result)
                     /\ UNCHANGED << calls, dbi >>
                ELSE /\ Return
                     /\ unclosed' = {}
    /\ UNCHANGED << argv, server, faults, today, daily, weekly, monthly, options, counter,
                    index, runs, rotations >>

\* generateSingleFileBackup, generateSchemaBackup and
\* generateSingleFileDataBackup: one dump, its archive, and os.Exit(4) when
\* either fails; the deferred Close calls run as the function returns.
OneDump(kind) ==
    /\ \E result \in ResultsAt(today \in daily, 0) :
         LET e == Entry(today, options, options.Databases[dbi], kind, NoTable, 0, 0, 0,
                        result)
         IN  /\ dumps' = Append(dumps, e)
             /\ files' = Invoke(files, e.file, result, today \in daily)
             /\ IF Fatal(result)
                THEN /\ Exit(ExitDumpFailed)
                     /\ unclosed' = Deferred(unclosed, e.file, result)
                     /\ UNCHANGED << calls, dbi >>
                ELSE /\ Return
                     /\ unclosed' = {}
    /\ UNCHANGED << argv, server, faults, today, daily, weekly, monthly, options, counter,
                    index, runs, rotations >>

generateSingleFileBackup ==
    /\ pc = "call"
    /\ Head(calls).fn = "generateSingleFileBackup"
    /\ OneDump("ALL")

generateSchemaBackup ==
    /\ pc = "call"
    /\ Head(calls).fn = "generateSchemaBackup"
    /\ OneDump("SCHEMA")

generateSingleFileDataBackup ==
    /\ pc = "call"
    /\ Head(calls).fn = "generateSingleFileDataBackup"
    /\ OneDump("DATA")

LoopCondStrict(c, rowCount) == c < rowCount

\* generateTableBackup's loop condition: counter <= table.RowCount
LoopCond(c, rowCount) == c <= rowCount

WindowSwapped(c, batchSize) == [ offset |-> batchSize, limit |-> c ]

\* --where=1=1 LIMIT counter, BatchSize
Window(c, batchSize) == [ offset |-> c, limit |-> batchSize ]

\* generateTableBackup: one step is one pass of its loop (a dump of the
\* window at counter, its archive, os.Exit(4) when either fails, then
\* counter += BatchSize and index++), or the loop's end and the return, where
\* the deferred Close calls of every pass run.  The model follows a table
\* for MaxBatches passes.
generateTableBackup ==
    /\ pc = "call"
    /\ Head(calls).fn = "generateTableBackup"
    /\ LET table == Head(calls).table IN
       IF LoopCond(counter, table.RowCount)
       THEN LET w == Window(counter, options.BatchSize) IN
            \E result \in ResultsAt(today \in daily, w.limit) :
              LET e == Entry(today, options, options.Databases[dbi], "TABLE", table,
                             index, w.offset, w.limit, result)
              IN  /\ index <= MaxBatches
                  /\ dumps' = Append(dumps, e)
                  /\ files' = Invoke(files, e.file, result, today \in daily)
                  /\ unclosed' = Deferred(unclosed, e.file, result)
                  /\ IF Fatal(result)
                     THEN Exit(ExitDumpFailed) /\ UNCHANGED << counter, index >>
                     ELSE /\ counter' = counter + options.BatchSize
                          /\ index' = index + 1
                          /\ UNCHANGED << pc, exitCode, errlog >>
                  /\ UNCHANGED << calls, dbi >>
       ELSE /\ Return
            /\ counter' = 0
            /\ index' = 1
            /\ unclosed' = {}
            /\ UNCHANGED << dumps, files >>
    /\ UNCHANGED << argv, server, faults, today, daily, weekly, monthly, options, runs,
                    rotations >>

-----------------------------------------------------------------------------
(* Rotation *)

TierDir(tier) == << OutputDirectory, tier >>

RECURSIVE SortedDates(_)
SortedDates(S) ==
    IF S = {} THEN << >>
    ELSE LET m == CHOOSE x \in S : \A y \in S : x <= y
         IN  << m >> \o SortedDates(S \ { m })

\* filepath.Walk(searchDir, ..): the directory itself, then what it holds, in
\* lexical order.
Walk(searchDir, snapshots) ==
    << searchDir >> \o [ i \in 1..Cardinality(snapshots) |->
                           searchDir \o << SortedDates(snapshots)[i] >> ]

\* ListFiles: every path Walk visits that is not literally "daily", "weekly"
\* or "monthly".
ListFiles(searchDir, snapshots) ==
    SelectSeq(Walk(searchDir, snapshots),
              LAMBDA path : /\ path # << "daily" >>
                            /\ path # << "weekly" >>
                            /\ path # << "monthly" >>)

\* The files of the snapshot of a date in a tier.
SnapshotFiles(fs, tier, date) == { f \in fs : f[2] = tier /\ f[3] = date }

\* filepath.Join(dst, entry.Name()) for a file of the source snapshot.
CopyPath(f, dstTier) == [ f EXCEPT ![2] = dstTier ]

CopyDirMoves(srcDirs, dstDirs, fs, srcTier, dstTier, date, made, copied) ==
    IF date \notin srcDirs \/ date \in dstDirs \/ ~made
    THEN [ err |-> TRUE, dirs |-> dstDirs, files |-> fs ]
    ELSE [ err |-> copied # SnapshotFiles(fs, srcTier, date),
           dirs |-> dstDirs \cup { date },
           files |-> (fs \ copied) \cup { CopyPath(f, dstTier) : f \in copied } ]

CopyDirMerges(srcDirs, dstDirs, fs, srcTier, dstTier, date, made, copied) ==
    IF date \notin srcDirs \/ ~made
    THEN [ err |-> TRUE, dirs |-> dstDirs, files |-> fs ]
    ELSE [ err |-> copied # SnapshotFiles(fs, srcTier, date),
           dirs |-> dstDirs \cup { date },
           files |-> fs \cup { CopyPath(f, dstTier) : f \in copied } ]

\* CopyDir(src, dst) for the snapshot of a date: an error and no change when
\* the source is missing, the destination exists or MkdirAll fails (~made);
\* else the destination directory and copies of the files reached before the
\* first error (copied), an error unless that is every file of the source.
CopyDir(srcDirs, dstDirs, fs, srcTier, dstTier, date, made, copied) ==
    IF date \notin srcDirs \/ date \in dstDirs \/ ~made
    THEN [ err |-> TRUE, dirs |-> dstDirs, files |-> fs ]
    ELSE [ err |-> copied # SnapshotFiles(fs, srcTier, date),
           dirs |-> dstDirs \cup { date },
           files |-> fs \cup { CopyPath(f, dstTier) : f \in copied } ]

\* The statement of BackupRotation's monthly branch: CopyDir of today's daily
\* snapshot into the monthly tier, the error it returns dropped.
MonthlyCopy ==
    \E made \in BOOLEAN, copied \in SUBSET SnapshotFiles(files, "daily", today) :
        LET r == CopyDir(daily, monthly, files, "daily", "monthly", today, made, copied)
        IN  /\ monthly' = r.dirs
            /\ files' = r.files

BackupRotationToggle ==
    /\ pc = "rotate"
    /\ monthly' = IF options.MontlyRotation > 0
                  THEN (IF monthly = {} THEN monthly \cup { today }
                        ELSE monthly \ { CHOOSE x \in monthly : \A y \in monthly : x <= y })
                  ELSE monthly
    /\ pc' = "done"
    /\ rotations' = rotations + 1
    /\ UNCHANGED << argv, server, faults, today, daily, weekly, files, options, dbi,
                    calls, counter, index, dumps, unclosed, exitCode, errlog, runs >>

\* BackupRotation: with a monthly count > 0 and an empty ListFiles of the
\* monthly tier, today's daily snapshot is copied there; the weekly and the
\* daily branch are empty.
BackupRotation ==
    /\ pc = "rotate"
    /\ IF /\ options.MontlyRotation > 0
          /\ Len(ListFiles(TierDir("monthly"), monthly)) = 0
       THEN MonthlyCopy
       ELSE UNCHANGED << monthly, files >>
    /\ pc' = "done"
    /\ rotations' = rotations + 1
    /\ UNCHANGED << argv, server, faults, today, daily, weekly, options, dbi, calls,
                    counter, index, dumps, unclosed, exitCode, errlog, runs >>

-----------------------------------------------------------------------------
(* Specifications *)

Next ==
    \/ GetOptions
    \/ MainLoop
    \/ generateSingleFileBackup
    \/ generateSchemaBackup
    \/ generateSingleFileDataBackup
    \/ generateTableBackup
    \/ BackupRotation

\* One process, from its command line to its exit.
Spec == Init /\ [][Next]_vars

ProcessReset ==
    /\ pc' = "start" /\ options' = NoOptions /\ dbi' = 0 /\ calls' = << >>
    /\ counter' = 0 /\ index' = 1 /\ dumps' = << >> /\ unclosed' = {}
    /\ exitCode' = 0
    /\ errlog' = << >>

\* The tool is started again on the same day.
NextRun ==
    /\ pc \in { "done", "exited" }
    /\ runs < MaxRunsPerDay
    /\ argv' \in RotationArgs
    /\ ProcessReset
    /\ runs' = runs + 1
    /\ UNCHANGED << server, faults, today, daily, weekly, monthly, files, rotations >>

\* The tool is started on the next day.
NextDay ==
    /\ pc \in { "done", "exited" }
    /\ today < MaxDay
    /\ today' = today + 1
    /\ argv' \in RotationArgs
    /\ ProcessReset
    /\ runs' = 1
    /\ rotations' = 0
    /\ UNCHANGED << server, faults, daily, weekly, monthly, files >>

InitRotation ==
    /\ argv \in RotationArgs
    /\ server = SmallServer
    /\ faults = ReportedFaults \cup QueryFaults
    /\ today = 1
    /\ daily = {} /\ weekly = {} /\ monthly = {} /\ files = {}
    /\ ProcessStart
    /\ runs = 1 /\ rotations = 0

\* The steps of a run of RotationArgs against SmallServer, and the next run.
NextRotation ==
    \/ GetOptions
    \/ MainLoop
    \/ generateSingleFileBackup
    \/ BackupRotation
    \/ NextRun
    \/ NextDay

\* Runs of the tool day after day, against one output directory.
SpecRotation == InitRotation /\ [][NextRotation]_vars

-----------------------------------------------------------------------------
(* What the claims speak of *)

DumpsOf(db) == SelectSeq(dumps, LAMBDA e : e.db = db)

KindsOf(db) == [ i \in 1..Len(DumpsOf(db)) |-> DumpsOf(db)[i].kind ]

TableDumps(db, t) ==
    SelectSeq(dumps, LAMBDA e : e.db = db /\ e.kind = "TABLE" /\ e.table = t)

TotalOf(db) == getTotalRowCount(GetTables(server, db))

\* The databases main's loop is through with.
DoneDatabases == { i \in 1..Len(options.Databases) : i < dbi }

\* generateTableBackup has returned for table t of the i-th database.
TableDone(i, t) ==
    \/ i < dbi
    \/ /\ i = dbi
       /\ pc = "call"
       /\ DumpsOf(options.Databases[i]) # << >>
       /\ \A j \in 1..Len(calls) : calls[j].table.TableName # t

\* The (database, table) pairs of the batched databases whose
\* generateTableBackup has returned.
DoneTables ==
    { p \in (1..Len(options.Databases)) \X (1..(MaxTables + 1)) :
        LET db == options.Databases[p[1]] IN
        /\ TotalOf(db) > options.DatabaseRowCountTreshold
        /\ p[2] <= Len(GetTables(server, db))
        /\ TableDone(p[1], GetTables(server, db)[p[2]].TableName) }

\* C1: the dumps main invokes for a database follow the decision table: ALL
\* alone when !forceSplit and total <= threshold, SCHEMA then DATA when
\* forceSplit and total <= threshold, SCHEMA then only per-table dumps when
\* total > threshold whatever forceSplit is; a database main is through with
\* has at least one dump.
C1_DecisionTable ==
    /\ \A n \in 1..Len(dumps) :
         LET e == dumps[n]
             below == TotalOf(e.db) <= options.DatabaseRowCountTreshold
         IN  /\ e.kind = "ALL" => ~options.ForceSplit /\ below
             /\ e.kind = "DATA" => options.ForceSplit /\ below
             /\ e.kind = "TABLE" => ~below
             /\ e.kind = "SCHEMA" => options.ForceSplit \/ ~below
    /\ \A i \in DoneDatabases :
         LET db == options.Databases[i]
             k == KindsOf(db)
             below == TotalOf(db) <= options.DatabaseRowCountTreshold
         IN  /\ k # << >>
             /\ (~options.ForceSplit /\ below) => k = << "ALL" >>
             /\ (options.ForceSplit /\ below) => k = << "SCHEMA", "DATA" >>
             /\ ~below => k[1] = "SCHEMA" /\ \A j \in 2..Len(k) : k[j] = "TABLE"

\* C1 witness: in one run with forceSplit set, a database whose total equals
\* the threshold was split into SCHEMA and DATA and one above it was batched.
C1_Witness ==
    /\ pc = "done" /\ options.ForceSplit
    /\ \E i, j \in DoneDatabases :
         /\ TotalOf(options.Databases[i]) = options.DatabaseRowCountTreshold
         /\ KindsOf(options.Databases[i]) = << "SCHEMA", "DATA" >>
         /\ TotalOf(options.Databases[j]) > options.DatabaseRowCountTreshold
         /\ "TABLE" \in Range(KindsOf(options.Databases[j]))

\* C2: the dump kinds of a database main is through with are one ALL, or
\* SCHEMA then DATA, or SCHEMA then the batch dumps of each of its tables (at
\* least one per table); ALL never occurs beside another kind.
C2_OneShape ==
    /\ \A i \in DoneDatabases :
         LET db == options.Databases[i]
             k == KindsOf(db)
             tables == GetTables(server, db)
         IN  \/ k = << "ALL" >>
             \/ k = << "SCHEMA", "DATA" >>
             \/ /\ Len(k) >= 1 /\ k[1] = "SCHEMA"
                /\ \A j \in 2..Len(k) : k[j] = "TABLE"
                /\ \A j \in 1..Len(tables) :
                     Len(TableDumps(db, tables[j].TableName)) >= 1
    /\ \A n \in 1..Len(dumps) :
         dumps[n].kind = "ALL" => KindsOf(dumps[n].db) = << "ALL" >>

\* C2 witness: one run went through a database of the second and one of the
\* third shape.
C2_Witness ==
    /\ pc = "done"
    /\ \E i, j \in DoneDatabases :
         /\ KindsOf(options.Databases[i]) = << "SCHEMA", "DATA" >>
         /\ Len(KindsOf(options.Databases[j])) >= 3
         /\ KindsOf(options.Databases[j])[2] = "TABLE"

\* C3: a table of r rows whose generateTableBackup returned (every dump and
\* archive succeeded) got exactly floor(r/b) + 1 dumps.
C3_BatchCount ==
    \A p \in DoneTables :
        LET db == options.Databases[p[1]]
            table == GetTables(server, db)[p[2]]
        IN  Len(TableDumps(db, table.TableName))
              = (table.RowCount \div options.BatchSize) + 1

\* C3 witness: a run dumped an empty table once and gave a table whose row
\* count is a positive multiple of b > 1 its trailing window.
C3_Witness ==
    \E p, q \in DoneTables :
        LET db == options.Databases[p[1]]
            table == GetTables(server, db)[p[2]]
            d == TableDumps(db, table.TableName)
            db0 == options.Databases[q[1]]
            table0 == GetTables(server, db0)[q[2]]
        IN  /\ table.RowCount > 0
            /\ options.BatchSize > 1
            /\ table.RowCount % options.BatchSize = 0
            /\ Len(d) = (table.RowCount \div options.BatchSize) + 1
            /\ d[Len(d)].offset = table.RowCount
            /\ table0.RowCount = 0
            /\ Len(TableDumps(db0, table0.TableName)) = 1

\* C4: the k-th dump of a table has batch index k, the window
\* LIMIT (k-1)*b, b and the file {db}_{table}{k}_{timestamp}.sql; once
\* generateTableBackup returned, the offsets are the multiples of b up to the
\* row count, each used once, in increasing order.
C4_Windows ==
    /\ \A n \in 1..Len(dumps) :
         dumps[n].kind = "TABLE" =>
           LET d == TableDumps(dumps[n].db, dumps[n].table) IN
           \A k \in 1..Len(d) :
               /\ d[k].index = k
               /\ d[k].offset = (k - 1) * options.BatchSize
               /\ d[k].limit = options.BatchSize
               /\ d[k].file[5] = dumps[n].db \o << "_" >> \o dumps[n].table \o Digits(k)
                                  \o << "_" >> \o Timestamp(options.ExecutionStartDate)
                                  \o << ".sql" >>
    /\ \A p \in DoneTables :
         LET db == options.Databases[p[1]]
             table == GetTables(server, db)[p[2]]
             d == TableDumps(db, table.TableName)
         IN  { d[k].offset : k \in 1..Len(d) }
               = { m \in 0..table.RowCount : m % options.BatchSize = 0 }

\* C4 witness: a table of 4b rows was dumped at offsets 0, b, 2b, 3b, 4b with
\* indices 1..5.
C4_Witness ==
    \E p \in DoneTables :
        LET db == options.Databases[p[1]]
            table == GetTables(server, db)[p[2]]
            d == TableDumps(db, table.TableName)
            b == options.BatchSize
        IN  /\ table.RowCount = 4 * b
            /\ [ k \in 1..Len(d) |-> d[k].offset ] = << 0, b, 2 * b, 3 * b, 4 * b >>
            /\ [ k \in 1..Len(d) |-> d[k].index ] = << 1, 2, 3, 4, 5 >>

C6_RotationBound ==
    pc = "done" =>
        /\ options.DailyRotation > 0 => Cardinality(daily) <= options.DailyRotation
        /\ options.WeeklyRotation > 0 => Cardinality(weekly) <= options.WeeklyRotation
        /\ options.MontlyRotation > 0 => Cardinality(monthly) <= options.MontlyRotation

\* C7: a BackupRotation that starts with a monthly count > 0 and no monthly
\* snapshot leaves today's snapshot in the monthly tier.
C7_MonthlyBootstrap ==
    [][ (pc = "rotate" /\ pc' = "done" /\ options.MontlyRotation > 0 /\ monthly = {}
         /\ today \in daily)
        => today \in monthly' ]_vars

\* C8: a BackupRotation that starts with a weekly count > 0 and no weekly
\* snapshot (the bootstrap case of the cadence check) leaves today's snapshot
\* in the weekly tier.
C8_WeeklyPromotion ==
    [][ (pc = "rotate" /\ pc' = "done" /\ options.WeeklyRotation > 0 /\ weekly = {}
         /\ today \in daily)
        => today \in weekly' ]_vars

\* C9: a BackupRotation that follows another one of the same day changes
\* neither the monthly nor the weekly tier.
C9_RotationIdempotent ==
    [][ (pc = "rotate" /\ pc' = "done" /\ rotations >= 1)
        => (monthly' = monthly /\ weekly' = weekly) ]_vars

\* C9 witness: BackupRotation ran twice on one day, both times with monthly
\* and weekly counts > 0.
C9_Witness ==
    /\ pc = "done"
    /\ rotations = 2
    /\ runs = 2
    /\ options.MontlyRotation > 0
    /\ options.WeeklyRotation > 0
    /\ today \in daily

-----------------------------------------------------------------------------
(* Option resolution on its own *)

FlagChars == { "a", "b", ",", " " }

\* The flag values of at most n characters.
FlagValues(n) == UNION { [ 1..k -> FlagChars ] : k \in 0..n }

\* Database names a server may hold: a, b, ab, "a b" and two system schemas.
ServerNames ==
    { NameA, NameB, << "a", "b" >>, << "a", " ", "b" >>,
      InformationSchema, PerformanceSchema }

\* The database lists of at most n distinct names.
DatabaseLists(n) ==
    UNION { { l \in [ 1..k -> ServerNames ] :
                \A i, j \in 1..k : i # j => l[i] # l[j] } : k \in 0..n }

NamedServer(names) == [ i \in 1..Len(names) |-> [ name |-> names[i], tables |-> << >> ] ]

OptionArgs(databases, excluded) ==
    MkArgs(databases, excluded, 0, 1, FALSE, DefaultDumpPath, DefaultDailyRotation,
           DefaultWeeklyRotation, DefaultMontlyRotation)

\* Longer -databases values: "a,b,a", "b, a,b,a" and "a,information_schema".
ExplicitLists ==
    { << "a", ",", "b", ",", "a" >>,
      << "b", ",", " ", "a", ",", "b", ",", "a" >>,
      << "a", "," >> \o InformationSchema }

\* -excluded-databases values tried beside an explicit list.
ExclusionProbes == { << >>, NameA, << "b", ",", "a" >>, InformationSchema }

\* Either all-databases mode (the default flag value, also written with a
\* blank) with any exclusion list and any server, or an explicit list with
\* one of the exclusion lists of ExclusionProbes.
InitOptions ==
    /\ \/ /\ argv \in { OptionArgs(d, x) :
                          d \in { AllDatabasesFlag, << " " >> \o AllDatabasesFlag },
                          x \in FlagValues(MaxFlagLen) }
          /\ server \in { NamedServer(l) : l \in DatabaseLists(MaxServerDbs) }
       \/ /\ argv \in { OptionArgs(d, x) :
                          d \in FlagValues(MaxFlagLen) \cup ExplicitLists,
                          x \in ExclusionProbes }
          /\ server = NamedServer(<< NameA, InformationSchema, NameB >>)
    /\ faults = ReportedFaults \cup QueryFaults
    /\ today = 1
    /\ daily = {} /\ weekly = {} /\ monthly = {} /\ files = {}
    /\ ProcessStart
    /\ runs = 1 /\ rotations = 0

\* GetOptions over every command line and server of InitOptions.
SpecOptions == InitOptions /\ [][GetOptions]_vars

\* -databases was left at, or given as, --all-databases.
AllDatabasesMode == Replace(argv.databases, << " " >>, << >>) = AllDatabasesFlag

\* The names of the -excluded-databases value: its pieces between commas,
\* blanks dropped.
UserExcluded == Range(Split(Replace(argv.excludeddatabases, << " " >>, << >>)))

\* s is t with some elements left out, the order kept.
RECURSIVE IsSubSeq(_, _)
IsSubSeq(s, t) ==
    IF s = << >> THEN TRUE
    ELSE IF t = << >> THEN FALSE
    ELSE IF Head(s) = Head(t) THEN IsSubSeq(Tail(s), Tail(t))
    ELSE IsSubSeq(s, Tail(t))

\* C10: in all-databases mode the resolved list is the server's list, in the
\* server's order, without the names of the exclusion list and without
\* information_schema and performance_schema, whatever the exclusion list.
C10_AllDatabases ==
    (pc = "loop" /\ AllDatabasesMode) =>
        LET listed == GetDatabaseList(server) IN
        /\ IsSubSeq(options.Databases, listed)
        /\ \A name \in Range(listed) :
             name \in Range(options.Databases)
               <=> /\ name \notin UserExcluded
                   /\ name # InformationSchema
                   /\ name # PerformanceSchema

\* C10 witness: the server lists a, b and a system schema, the exclusion list
\* names b only, and a alone is resolved; and with an empty exclusion list
\* the system schemas are dropped all the same.
C10_Witness ==
    /\ pc = "loop" /\ AllDatabasesMode
    /\ GetDatabaseList(server) = << InformationSchema, NameA, NameB >>
    /\ argv.excludeddatabases = NameB
    /\ options.Databases = << NameA >>

C10_WitnessEmptyExclusion ==
    /\ pc = "loop" /\ AllDatabasesMode
    /\ argv.excludeddatabases = << >>
    /\ GetDatabaseList(server) = << NameA, PerformanceSchema, NameB >>
    /\ options.Databases = << NameA, NameB >>

\* The names of the -databases value: its pieces between commas, blanks
\* dropped.
UserListed == Split(Replace(argv.databases, << " " >>, << >>))

\* The place of the first x in l.
FirstIndex(l, x) == CHOOSE i \in 1..Len(l) : l[i] = x /\ \A j \in 1..(i - 1) : l[j] # x

\* C11: with an explicit -databases list the resolved list has no name twice,
\* holds exactly the names of the list, and holds them in the order of their
\* first occurrence there; so main's loop meets no database twice.
C11_FirstOccurrences ==
    (pc = "loop" /\ ~AllDatabasesMode) =>
        LET r == options.Databases
            l == UserListed
        IN  /\ \A i, j \in 1..Len(r) : i # j => r[i] # r[j]
            /\ Range(r) = Range(l)
            /\ \A i, j \in 1..Len(r) : i < j => FirstIndex(l, r[i]) < FirstIndex(l, r[j])

\* C11 witness: -databases "a,b,a" was resolved to [a, b].
C11_Witness ==
    /\ pc = "loop"
    /\ argv.databases = << "a", ",", "b", ",", "a" >>
    /\ options.Databases = << NameA, NameB >>

\* C12: with an explicit -databases list the resolved list is the one every
\* other exclusion list would have given, and every listed name is in it.
C12_ExclusionIgnored ==
    (pc = "loop" /\ ~AllDatabasesMode) =>
        /\ \A x \in ExclusionProbes :
             NewOptions(OptionArgs(argv.databases, x), GetDatabaseList(server),
                        today).Databases = options.Databases
        /\ \A i \in 1..Len(UserListed) : UserListed[i] \in Range(options.Databases)

\* C12 witness: "a,information_schema" was listed and a excluded, and both
\* names were resolved.
C12_Witness ==
    /\ pc = "loop"
    /\ argv.databases = << "a", "," >> \o InformationSchema
    /\ argv.excludeddatabases = NameA
    /\ options.Databases = << NameA, InformationSchema >>

-----------------------------------------------------------------------------
(* The archive step on a machine where every step of it can fail *)

\* Command lines for database a alone.
ArchiveArgs == { a \in SizingArgs : a.databases = NameA }

\* Servers whose database a has at most one table, b none.
ArchiveServers ==
    { sv \in Servers : Len(sv[1].tables) <= 1 /\ Len(sv[2].tables) = 0 }

InitArchive ==
    /\ argv \in ArchiveArgs
    /\ server \in ArchiveServers
    /\ faults = (Results \ { "ok" }) \cup QueryFaults
    /\ today = 1
    /\ daily = {} /\ weekly = {} /\ monthly = {} /\ files = {}
    /\ ProcessStart
    /\ runs = 1 /\ rotations = 0

\* One process, file.Stat failures included.
SpecArchive == InitArchive /\ [][Next]_vars

\* C13: when a run has completed normally, every dump it invoked has its
\* archive at <dump file>.tar.gz, one archive per dump, and the dump file
\* itself is gone.
C13_ArchivedAndRemoved ==
    pc = "done" =>
        /\ \A n \in 1..Len(dumps) :
             /\ ArchiveOf(dumps[n].file) \in files
             /\ dumps[n].file \notin files
        /\ \A n, k \in 1..Len(dumps) :
             n # k => ArchiveOf(dumps[n].file) # ArchiveOf(dumps[k].file)

-----------------------------------------------------------------------------
(* A run during which the date changes *)

\* Midnight passes while the process is at work.
Tick ==
    /\ pc \in { "loop", "call", "rotate" }
    /\ today < MaxDay
    /\ today' = today + 1
    /\ UNCHANGED << argv, server, faults, daily, weekly, monthly, files, pc, options,
                    dbi, calls, counter, index, dumps, unclosed, exitCode, errlog, runs,
                    rotations >>

InitClock ==
    /\ argv \in ArchiveArgs
    /\ server \in ArchiveServers
    /\ faults = ReportedFaults \cup QueryFaults
    /\ today = 1
    /\ daily = {} /\ weekly = {} /\ monthly = {} /\ files = {}
    /\ ProcessStart
    /\ runs = 1 /\ rotations = 0

NextClock == Next \/ Tick

\* One process and the clock.
SpecClock == InitClock /\ [][NextClock]_vars

\* C14: every dump of a run is written under the daily snapshot directory of
\* the run's start date, which exists, in the database directory with that
\* date as suffix and under a file name with that date as timestamp.
C14_OneSnapshot ==
    \A n \in 1..Len(dumps) :
        LET f == dumps[n].file
            start == options.ExecutionStartDate
        IN  /\ f[3] = start
            /\ f[3] \in daily
            /\ f[4] = << dumps[n].db, start >>
            /\ LET suffix == << "_" >> \o Timestamp(start) \o << ".sql" >>
               IN  /\ Len(f[5]) >= Len(suffix)
                   /\ SubSeq(f[5], Len(f[5]) - Len(suffix) + 1, Len(f[5])) = suffix

-----------------------------------------------------------------------------
(* Failures before and between the dumps *)

C16_NoWorkBeforeExit ==
    argv.mysqldumppath \notin Executables =>
        /\ pc \in { "start", "exited" }
        /\ daily = {} /\ weekly = {} /\ monthly = {} /\ files = {}
        /\ options = NoOptions /\ dbi = 0
        /\ dumps = << >>
        /\ exitCode # ExitPanic
        /\ pc = "exited" => exitCode # 0

\* C16 witness: the process has exited for want of the dump executable.
C16_Witness ==
    /\ pc = "exited"
    /\ argv.mysqldumppath \notin Executables
    /\ exitCode = ExitDumpPathMissing

\* C17: the exit for a missing dump executable has one non-zero status, and
\* the exit after diagnostic text of a dump has another non-zero status, the
\* same for the dumps of every kind.
C17_ExitStatuses ==
    /\ (pc = "exited" /\ argv.mysqldumppath \notin Executables) =>
          exitCode = ExitDumpPathMissing /\ exitCode # 0
    /\ \A n \in 1..Len(dumps) :
          dumps[n].result = "dumperr" =>
             /\ dumps[n].kind \in { "ALL", "SCHEMA", "DATA", "TABLE" }
             /\ exitCode = ExitDumpFailed
             /\ exitCode # 0
             /\ exitCode # ExitDumpPathMissing

\* C17 witness: a run with a schema dump behind it has left after the
\* diagnostic text of a table dump.
C17_Witness ==
    /\ pc = "exited"
    /\ Len(dumps) >= 2
    /\ dumps[1].kind = "SCHEMA"
    /\ dumps[Len(dumps)].kind = "TABLE"
    /\ dumps[Len(dumps)].result = "dumperr"
    /\ exitCode = ExitDumpFailed

\* C19: when the process has ended, normally or by a fatal exit, every dump
\* whose .sql file was removed has an archive whose writers and file were
\* closed.
C19_FinalisedArchives ==
    pc \in { "done", "exited" } =>
        \A n \in 1..Len(dumps) :
            (dumps[n].result = "ok" /\ dumps[n].file \notin files) =>
                /\ ArchiveOf(dumps[n].file) \in files
                /\ ArchiveOf(dumps[n].file) \notin unclosed

-----------------------------------------------------------------------------
(* Every batch size the flag accepts *)

\* -batchsize is an int flag without a check: negative, zero and positive
\* values.
BatchArgs ==
    { MkArgs(NameA, << >>, th, b, fs, DefaultDumpPath, DefaultDailyRotation,
             DefaultWeeklyRotation, DefaultMontlyRotation) :
        th \in (-1)..MaxThreshold, b \in (-1)..MaxBatch, fs \in BOOLEAN }

InitBatch ==
    /\ argv \in BatchArgs
    /\ server \in ArchiveServers
    /\ faults = ReportedFaults \cup QueryFaults
    /\ today = 1
    /\ daily = {} /\ weekly = {} /\ monthly = {} /\ files = {}
    /\ ProcessStart
    /\ runs = 1 /\ rotations = 0

\* One process under any batch size.
SpecBatch == InitBatch /\ [][Next]_vars

\* C20: generateTableBackup's loop ends after finitely many dumps: every
\* pass that goes on to a next pass has moved counter up towards the row
\* count that bounds it.
C20_LoopAdvances ==
    [][ (/\ pc = "call" /\ pc' = "call"
         /\ Len(dumps') = Len(dumps) + 1
         /\ dumps'[Len(dumps')].kind = "TABLE")
        => counter' > counter ]_vars

-----------------------------------------------------------------------------
(* The copy step of the rotation on its own *)

\* The days the copy step is tried on: snapshots of yesterday and today.
CopyDays == { MaxDay - 1, MaxDay }

\* The archives a snapshot of database a may hold.
CopyFileNames ==
    { NameA \o << "_", "ALL", "_" >> \o Timestamp(d) \o << ".sql", ".tar.gz" >> :
        d \in CopyDays }
    \cup { NameA \o << "_", "SCHEMA", "_" >> \o Timestamp(MaxDay)
             \o << ".sql", ".tar.gz" >> }

\* The files snapshot directories dirs of a tier may hold.
TierFiles(tier, dirs) ==
    { << OutputDirectory, tier, d, << NameA, d >>, name >> :
        d \in dirs, name \in CopyFileNames }

PromoteMonthlyChecked ==
    /\ pc = "copy"
    /\ \E made \in BOOLEAN, copied \in SUBSET SnapshotFiles(files, "daily", today) :
         LET r == CopyDir(daily, monthly, files, "daily", "monthly", today, made, copied)
         IN  /\ monthly' = r.dirs
             /\ files' = r.files
             /\ IF r.err THEN Exit(ExitPanic)
                         ELSE pc' = "done" /\ UNCHANGED << exitCode, errlog >>
    /\ rotations' = rotations + 1
    /\ UNCHANGED << argv, server, faults, today, daily, weekly, options, dbi, calls,
                    counter, index, dumps, unclosed, runs >>

\* BackupRotation from its CopyDir call on: the copy, then the end of main.
PromoteMonthly ==
    /\ pc = "copy"
    /\ MonthlyCopy
    /\ pc' = "done"
    /\ rotations' = rotations + 1
    /\ UNCHANGED << argv, server, faults, today, daily, weekly, options, dbi, calls,
                    counter, index, dumps, unclosed, exitCode, errlog, runs >>

\* A process at the CopyDir call of BackupRotation, over every state of the
\* daily and the monthly tier: snapshots present or not, each with any of its
\* files.
InitCopy ==
    /\ argv = MkArgs(NameA, << >>, 1, 1, FALSE, DefaultDumpPath, DefaultDailyRotation,
                     DefaultWeeklyRotation, DefaultMontlyRotation)
    /\ server = SmallServer
    /\ faults = ReportedFaults \cup QueryFaults
    /\ today = MaxDay
    /\ daily \in SUBSET CopyDays
    /\ monthly \in SUBSET CopyDays
    /\ weekly = {}
    /\ files \in { d \cup m : d \in SUBSET TierFiles("daily", daily),
                               m \in SUBSET TierFiles("monthly", monthly) }
    /\ pc = "copy"
    /\ options = NewOptions(argv, GetDatabaseList(server), today)
    /\ dbi = Len(options.Databases) + 1
    /\ calls = << >> /\ counter = 0 /\ index = 1 /\ dumps = << >> /\ unclosed = {}
    /\ exitCode = 0 /\ errlog = << >>
    /\ runs = 1 /\ rotations = 0

SpecCopy == InitCopy /\ [][PromoteMonthly]_vars

\* The copy step has made the monthly snapshot of today a full copy of the
\* daily one.
CopyCompleted ==
    /\ today \in daily /\ today \notin monthly /\ today \in monthly'
    /\ \A f \in SnapshotFiles(files, "daily", today) : CopyPath(f, "monthly") \in files'

\* C18: a copy step that fails (no source snapshot, a destination that is
\* there already, a directory or file that cannot be written) is followed by
\* the normal end of the process with status 0, and leaves every snapshot and
\* file of the daily tier as it was.
C18_CopyFailureHarmless ==
    [][ (pc = "copy" /\ ~CopyCompleted)
        => /\ pc' = "done"
           /\ exitCode' = 0
           /\ daily' = daily
           /\ { f \in files' : f[2] = "daily" } = { f \in files : f[2] = "daily" } ]_vars

\* C18 witness: the copy step stopped after one of the two archives of
\* today's snapshot, both of which are still in the daily tier, and the
\* process ended normally.
C18_Witness ==
    /\ pc = "done" /\ rotations = 1 /\ exitCode = 0
    /\ today \in daily /\ today \in monthly
    /\ Cardinality(SnapshotFiles(files, "daily", today)) = 2
    /\ Cardinality(SnapshotFiles(files, "monthly", today)) = 1

-----------------------------------------------------------------------------
(* Tables of many batches *)

\* Database a with table t of up to MaxLongTable rows and an empty table t1.
LongServers == { MkServer(<< r, 0 >>, << >>) : r \in 0..MaxLongTable }

InitNames ==
    /\ argv \in { a \in SizingArgs :
                    a.databases = NameA /\ a.mysqldumppath \in Executables }
    /\ server \in LongServers
    /\ faults = ReportedFaults \cup QueryFaults
    /\ today = 1
    /\ daily = {} /\ weekly = {} /\ monthly = {} /\ files = {}
    /\ ProcessStart
    /\ runs = 1 /\ rotations = 0

\* One process on a database with a long table.
SpecNames == InitNames /\ [][Next]_vars

\* C21: within one run, two batch dumps of one database that differ in table
\* name or batch index are written to different files, so that no dump
\* replaces the archive of an earlier one.
C21_DistinctFiles ==
    \A n, k \in 1..Len(dumps) :
        ( /\ n < k
          /\ dumps[n].kind = "TABLE" /\ dumps[k].kind = "TABLE"
          /\ dumps[n].db = dumps[k].db
          /\ << dumps[n].table, dumps[n].index >> # << dumps[k].table, dumps[k].index >> )
        => dumps[n].file # dumps[k].file

-----------------------------------------------------------------------------
(* The copy step of the rotation: what it leaves behind and what it tells *)

C25_DailyKept ==
    [][ pc = "copy"
        => /\ daily' = daily
           /\ \A f \in files : f[2] = "daily" => f \in files' ]_vars

\* C25 witness: the copy step has promoted today's snapshot of two archives,
\* and both are still in the daily tier.
C25_Witness ==
    /\ pc = "done" /\ rotations = 1
    /\ today \in daily /\ today \in monthly
    /\ Cardinality(SnapshotFiles(files, "daily", today)) = 2
    /\ \A f \in SnapshotFiles(files, "daily", today) : CopyPath(f, "monthly") \in files

C30_CopyDirRefuses ==
    [][ (pc = "copy" /\ (today \notin daily \/ today \in monthly))
        => /\ daily' = daily /\ monthly' = monthly /\ files' = files
           /\ \A made \in BOOLEAN, copied \in SUBSET SnapshotFiles(files, "daily", today) :
                 CopyDir(daily, monthly, files, "daily", "monthly", today, made,
                         copied).err ]_vars

\* C30 witness: after the copy step, the monthly snapshot of today still has
\* an archive the daily one has not, and lacks one the daily one has: it was
\* there before, and nothing was copied into it.
C30_Witness ==
    /\ pc = "done" /\ rotations = 1
    /\ today \in daily /\ today \in monthly
    /\ \E f \in SnapshotFiles(files, "daily", today) : CopyPath(f, "monthly") \notin files
    /\ \E f \in SnapshotFiles(files, "monthly", today) : CopyPath(f, "daily") \notin files

-----------------------------------------------------------------------------
(* The order of a run *)

\* C23: BackupRotation runs once in a run, after the dumps and archives of
\* every database of the list are done; no dump is made once main has come
\* to it; a process that left on a fatal error has not run it.
C23_RotationLast ==
    [][ /\ rotations' <= 1
        /\ rotations' # rotations =>
              /\ pc = "rotate" /\ pc' = "done"
              /\ \A i \in 1..Len(options.Databases) :
                    /\ i < dbi
                    /\ DumpsOf(options.Databases[i]) # << >>
              /\ \A n \in 1..Len(dumps) :
                    dumps[n].result = "ok" /\ ArchiveOf(dumps[n].file) \in files
        /\ pc \in { "rotate", "done" } => dumps' = dumps
        /\ pc' = "exited" => rotations' = 0
        /\ pc' = "done" => rotations' = 1 ]_vars

\* C23 witness: a run over two databases with three dumps or more has ended
\* with its one rotation.
C23_Witness ==
    /\ pc = "done" /\ rotations = 1
    /\ Len(options.Databases) = 2
    /\ Len(dumps) >= 3

\* The place of table t in the inventory of database db
TablePlace(db, t) ==
    CHOOSE j \in 1..Len(GetTables(server, db)) : GetTables(server, db)[j].TableName = t

\* C24: a database has at most one schema dump, which is its first dump, and
\* that dump and its archive are done when a data dump of the database is
\* made; a database main is through with that was not dumped in one file has
\* that schema dump; the batch dumps of a database follow the inventory: all
\* batches of a table, with indexes 1, 2, ..., before the first of the next.
C24_SchemaFirstInventoryOrder ==
    \A i \in 1..Len(options.Databases) :
        LET db == options.Databases[i]
            d == DumpsOf(db)
        IN  /\ \A n \in 1..Len(d) :
                  /\ d[n].kind = "SCHEMA" => n = 1
                  /\ d[n].kind \in { "DATA", "TABLE" } =>
                        /\ n > 1 /\ d[1].kind = "SCHEMA" /\ d[1].result = "ok"
                        /\ ArchiveOf(d[1].file) \in files
            /\ (i \in DoneDatabases /\ KindsOf(db) # << "ALL" >>) =>
                  Len(d) >= 1 /\ d[1].kind = "SCHEMA"
            /\ \A n \in 1..Len(d) :
                  d[n].kind = "TABLE" =>
                    IF n > 1 /\ d[n - 1].kind = "TABLE" /\ d[n - 1].table = d[n].table
                    THEN d[n].index = d[n - 1].index + 1
                    ELSE /\ d[n].index = 1
                         /\ \A k \in 1..(n - 1) :
                               d[k].kind = "TABLE" =>
                                 TablePlace(db, d[k].table) < TablePlace(db, d[n].table)

\* C24 witness: a run has dumped a database of two tables in batches, two
\* batches for each table.
C24_Witness ==
    /\ pc = "done"
    /\ \E i \in DoneDatabases :
         LET d == DumpsOf(options.Databases[i]) IN
         /\ Len(d) = 5
         /\ [ n \in 1..5 |-> d[n].kind ]
              = << "SCHEMA", "TABLE", "TABLE", "TABLE", "TABLE" >>
         /\ d[3].table = d[2].table /\ d[4].table # d[3].table /\ d[5].table = d[4].table

-----------------------------------------------------------------------------
(* Dump commands that fail without a word *)

\* C27: a dump whose command leaves with a non-zero status without
\* diagnostic text, or cannot be started, is a failed dump: it is the last
\* invocation of the run, and the process has exited with a non-zero status.
C27_SilentFailureStops ==
    \A n \in 1..Len(dumps) :
        dumps[n].result \in { "exiterr", "starterr" } =>
            /\ n = Len(dumps)
            /\ pc = "exited"
            /\ exitCode # 0

-----------------------------------------------------------------------------
(* A run on a machine where nothing fails *)

\* Command lines with an executable at -mysqldump-path and servers that hold
\* every database the command line names; no query, dump or archive step
\* fails.
InitLive ==
    /\ argv \in { a \in SizingArgs : a.mysqldumppath \in Executables }
    /\ server \in Servers
    /\ \A db \in Range(NewOptions(argv, GetDatabaseList(server), 1).Databases) :
          HasDatabase(server, db)
    /\ faults = {}
    /\ today = 1
    /\ daily = {} /\ weekly = {} /\ monthly = {} /\ files = {}
    /\ ProcessStart
    /\ runs = 1 /\ rotations = 0

\* The steps of main after GetOptions
MainSteps ==
    \/ MainLoop
    \/ generateSingleFileBackup
    \/ generateSchemaBackup
    \/ generateSingleFileDataBackup
    \/ generateTableBackup
    \/ BackupRotation

\* The process is sequential and each of its steps returns: it goes on as
\* long as it has a next step.  GetOptions is the one step a process at its
\* start can take and it is always enabled there, so that weak fairness of
\* it is: the process does not stay at its start.
SpecLive ==
    InitLive /\ [][Next]_vars /\ WF_vars(MainSteps) /\ []<>(pc # "start")

\* The place of database db in the resolved list
DatabasePlace(db) ==
    CHOOSE i \in 1..Len(options.Databases) : options.Databases[i] = db

\* Every database of the list was gone through once, in list order, one at a
\* time: each has dumps, a single ALL or SCHEMA dump among them, and no dump
\* of a database comes after a dump of one later in the list.
InListOrder ==
    /\ \A i \in 1..Len(options.Databases) :
         LET d == DumpsOf(options.Databases[i]) IN
         /\ d # << >>
         /\ Cardinality({ n \in 1..Len(d) : d[n].kind \in { "ALL", "SCHEMA" } }) = 1
    /\ \A n, k \in 1..Len(dumps) :
         n < k => DatabasePlace(dumps[n].db) <= DatabasePlace(dumps[k].db)

\* C28: when every external call succeeds and the batch size is positive, a
\* run comes to its normal end, and has then gone through every database of
\* the resolved list once, one at a time, in list order.
C28_RunCompletes == <>(pc = "done" /\ exitCode = 0 /\ rotations = 1 /\ InListOrder)

\* C28 witness: a run over two databases, the first dumped in batches, has
\* come to its normal end.
C28_Witness ==
    /\ pc = "done" /\ faults = {}
    /\ Len(options.Databases) = 2
    /\ Len(DumpsOf(options.Databases[1])) >= 3
    /\ DumpsOf(options.Databases[2]) # << >>

-----------------------------------------------------------------------------
(* The per-table row threshold *)

\* Values of -tablethreshold: below, at and above the row counts of the
\* tables, and the default.
TableThresholds == (0..MaxThreshold) \cup { DefaultTableThreshold }

TableArgs ==
    { [ a EXCEPT !.tablethreshold = x ] : a \in ArchiveArgs, x \in TableThresholds }

InitTable ==
    /\ argv \in TableArgs
    /\ server \in { sv \in Servers : sv[2].tables = << >> }
    /\ faults = ReportedFaults \cup QueryFaults
    /\ today = 1
    /\ daily = {} /\ weekly = {} /\ monthly = {} /\ files = {}
    /\ ProcessStart
    /\ runs = 1 /\ rotations = 0

\* One process under every per-table threshold.
SpecTable == InitTable /\ [][Next]_vars

====
